---------------------------- MODULE Spec2Model ----------------------------
(***************************************************************************)
(* A model of the Sudoku engine of swzwsj/sudogame.  The repository holds  *)
(* three implementations of the same engine:                               *)
(*   "solver" : class SudokuSolver            (src/sudoku-solver.js)       *)
(*   "core"   : the SudokuCore object module  (src/sudoku-core.js)         *)
(*   "gen"    : the standalone generator      (src/unnamed/part_000)       *)
(* Each recursive search (solveGrid, countSolutionsFast) is modelled as a  *)
(* machine with an explicit call stack: one frame per active call, holding *)
(* the cell chosen by that call, its candidate list and the loop index.    *)
(* generateFullSudoku, removeNumbers and the puzzle generators run on top  *)
(* of these searches; their loops are cut at every call of a search.       *)
(***************************************************************************)
EXTENDS Integers, Sequences, FiniteSets, TLC

VARIABLES
  impl,     \* which implementation's code is running
  op,       \* the top-level operation the caller invoked, and its phase
  grid,     \* the grid object the caller passed (solve / carve: the puzzle)
  work,     \* the uniqueness counter's grid (a private copy, or grid itself)
  proc,     \* the recursive procedure the stack belongs to
  stack,    \* call stack of the running search, innermost frame last
  ctl,      \* control point: "call", "loop", "ret" inside a search; "start",
            \* "generate", "remove", "carve", "check" around it; "done"
  ret,      \* value returned by the call that returned last
  count,    \* solutionCount / solutionCounter.count
  cv,       \* locals of removeNumbers / generateSudokuPuzzle
  rnd,      \* the stream of values Math.random() is going to return
  out,      \* what the top-level operation returned / signalled
  input,    \* history: the caller's grid when the top-level operation began
  called    \* history: the search grid on entry to the call that returned last

vars == <<impl, op, grid, work, proc, stack, ctl, ret, count, cv, rnd, out,
          input, called>>

-----------------------------------------------------------------------------
(* Bounds of the model *)

\* at most this many of HoleCells are emptied in an input grid
MaxHoles == 4
\* Math.random() returns k / RandDen, k in 0 .. RandDen-1
RandDen == 2
\* the stream of random values is periodic with this period
RandLen == 2

-----------------------------------------------------------------------------
(* Grids *)

Idx == 0 .. 8
Digits == 1 .. 9
Cells == Idx \X Idx

\* Array(9).fill().map(() => Array(9).fill(0))
createEmptyGrid == [r \in Idx |-> [c \in Idx |-> 0]]

\* newGrid[i] = [...grid[i]]  /  JSON.parse(JSON.stringify(grid))
cloneGrid(g) == [r \in Idx |-> [c \in Idx |-> g[r][c]]]

\* grid[row][col] = num
SetCell(g, row, col, num) == [g EXCEPT ![row][col] = num]

-----------------------------------------------------------------------------
(* isValidPlacement, three times *)

\* class SudokuSolver: row scan, column scan, box scan
isValidPlacementSolver(g, row, col, num) ==
  LET startRow == (row \div 3) * 3
      startCol == (col \div 3) * 3
  IN  /\ \A x \in 0 .. 8 : g[row][x] # num
      /\ \A x \in 0 .. 8 : g[x][col] # num
      /\ \A i \in 0 .. 2 : \A j \in 0 .. 2 : g[i + startRow][j + startCol] # num

\* SudokuCore: the same three scans
isValidPlacementCore(g, row, col, num) ==
  LET startRow == (row \div 3) * 3
      startCol == (col \div 3) * 3
  IN  /\ \A x \in 0 .. 8 : g[row][x] # num
      /\ \A x \in 0 .. 8 : g[x][col] # num
      /\ \A i \in 0 .. 2 : \A j \in 0 .. 2 : g[startRow + i][startCol + j] # num

\* GenBoxCell with i/3 and i%3 exchanged
GenBoxCellExchanged(row, col, i) ==
  <<(row \div 3) * 3 + (i % 3), (col \div 3) * 3 + (i % 3)>>

\* the box cell visited by iteration i of the single loop
GenBoxCell(row, col, i) ==
  <<(row \div 3) * 3 + (i \div 3), (col \div 3) * 3 + (i % 3)>>

\* standalone generator: one loop, box indexed by i/3 and i%3
isValidPlacementGen(g, row, col, num) ==
  \A i \in 0 .. 8 :
     /\ g[row][i] # num
     /\ g[i][col] # num
     /\ g[GenBoxCell(row, col, i)[1]][GenBoxCell(row, col, i)[2]] # num

isValidPlacement(im, g, row, col, num) ==
  CASE im = "solver" -> isValidPlacementSolver(g, row, col, num)
    [] im = "core"   -> isValidPlacementCore(g, row, col, num)
    [] OTHER         -> isValidPlacementGen(g, row, col, num)

-----------------------------------------------------------------------------
(* The random source.  rnd is the periodic stream of numerators k that     *)
(* Math.random() = k / RandDen is going to return; each call takes the     *)
(* head and moves it to the back.                                          *)

RandomStreams == [1 .. RandLen -> 0 .. RandDen - 1]

\* Math.floor(Math.random() * n)
RandomInt(s, n) == (Head(s) * n) \div RandDen

Advance(s) == Tail(s) \o <<Head(s)>>

\* [a[i], a[j]] = [a[j], a[i]] on a 0-based array held as a sequence
Swap(a, i, j) == [a EXCEPT ![i + 1] = a[j + 1], ![j + 1] = a[i + 1]]

RECURSIVE FisherYatesRun(_, _, _, _)
\* the iterations i, i-1, ..., stop+1 of
\* for (let i = ...; i > 0; i--) { j = floor(random() * (i + 1)); swap(i, j) }
\* (the array and the stream after one iteration are bound as values, so
\* that no chain of pending swaps builds up)
FisherYatesRun(a, i, stop, s) ==
  IF i <= stop THEN [arr |-> a, rnd |-> s]
  ELSE CHOOSE r \in {FisherYatesRun(b, i - 1, stop, t) :
                       b \in {Swap(a, i, RandomInt(s, i + 1))},
                       t \in {Advance(s)}} : TRUE

RECURSIVE FisherYates(_, _, _)
\* the whole loop from i down to 1, nine iterations at a time
FisherYates(a, i, s) ==
  IF i <= 0 THEN [arr |-> a, rnd |-> s]
  ELSE CHOOSE q \in {FisherYates(r.arr, IF i > 9 THEN i - 9 ELSE 0, r.rnd) :
                       r \in {FisherYatesRun(a, i, IF i > 9 THEN i - 9 ELSE 0, s)}} :
         TRUE

\* the Fisher-Yates shuffle every implementation uses: array and stream after it
shuffleArray(a, s) == FisherYates(a, Len(a) - 1, s)

-----------------------------------------------------------------------------
(* Scanning for the cell to branch on *)

OneToNine == <<1, 2, 3, 4, 5, 6, 7, 8, 9>>

\* the 81 cells in the order of for (row ...) for (col ...)
CellSeq == [i \in 1 .. 81 |-> <<(i - 1) \div 9, (i - 1) % 9>>]

\* for (num = 1; num <= 9; num++) if (isValidPlacement(...)) possibilities.push(num)
Possibilities(im, g, row, col) ==
  SelectSeq(OneToNine, LAMBDA num : isValidPlacement(im, g, row, col, num))

NoCell == [row |-> -1, col |-> -1, min |-> 10, poss |-> <<>>, dead |-> FALSE]

\* if (possibilities.length < minPossibilities) { ... best = this cell }
BetterCell(p, best) == Len(p) < best.min

RECURSIVE GenScanRow(_, _, _, _, _)
\* the inner loop (over col) of the scan of solveGrid / countSolutionsFast of
\* the standalone generator; prune: the counter returns at the first empty
\* cell without a candidate
GenScanRow(g, row, col, best, prune) ==
  IF col > 8 THEN best
  ELSE IF g[row][col] # 0 THEN GenScanRow(g, row, col + 1, best, prune)
  ELSE LET p == Possibilities("gen", g, row, col)
       IN  IF prune /\ Len(p) = 0
             THEN [best EXCEPT !.dead = TRUE]
           ELSE IF BetterCell(p, best)
             THEN GenScanRow(g, row, col + 1,
                             [row |-> row, col |-> col, min |-> Len(p),
                              poss |-> p, dead |-> FALSE], prune)
           ELSE GenScanRow(g, row, col + 1, best, prune)

RECURSIVE GenScan(_, _, _, _)
\* the outer loop (over row)
GenScan(g, row, best, prune) ==
  IF row > 8 \/ best.dead THEN best
  ELSE GenScan(g, row + 1, GenScanRow(g, row, 0, best, prune), prune)

\* emptyCells of SudokuSolver.solveGrid / backtrack and of solveGridWithMRV,
\* in the order the two nested loops push them
EmptyCells(im, g) ==
  LET empty == SelectSeq(CellSeq, LAMBDA c : g[c[1]][c[2]] = 0)
  IN  [i \in 1 .. Len(empty) |->
         [row |-> empty[i][1], col |-> empty[i][2],
          poss |-> Possibilities(im, g, empty[i][1], empty[i][2])]]

\* emptyCells.sort((a, b) => a.possibilities.length - b.possibilities.length)[0]:
\* Array.prototype.sort is stable, so the head of the sorted array is the
\* first element with the smallest key
SortedHead(cells) ==
  LET h == CHOOSE k \in 1 .. Len(cells) :
             /\ \A j \in 1 .. Len(cells) : Len(cells[j].poss) >= Len(cells[k].poss)
             /\ \A j \in 1 .. k - 1 : Len(cells[j].poss) > Len(cells[k].poss)
  IN  cells[h]

\* the cell SudokuSolver.solveGrid, SudokuSolver.backtrack and
\* solveGridWithMRV branch on
SortScan(im, g) ==
  LET cells == EmptyCells(im, g)
  IN  IF Len(cells) = 0 THEN NoCell
      ELSE LET h == SortedHead(cells)
           IN  [row |-> h.row, col |-> h.col, min |-> Len(h.poss),
                poss |-> h.poss, dead |-> FALSE]

\* the first empty cell in the order of the two nested loops (solveGrid of
\* SudokuCore)
FirstEmpty(g) ==
  LET empty == SelectSeq(CellSeq, LAMBDA c : g[c[1]][c[2]] = 0)
  IN  IF Len(empty) = 0 THEN NoCell
      ELSE [row |-> empty[1][1], col |-> empty[1][2], min |-> 10,
            poss |-> OneToNine, dead |-> FALSE]

RECURSIVE CoreCountRow(_, _, _, _)
\* the inner loop (over j) of the scan of countSolutionsFast of SudokuCore
\* for row i: a cell with one possibility is taken and ends the row
CoreCountRow(g, i, j, best) ==
  IF j > 8 THEN best
  ELSE IF g[i][j] # 0 THEN CoreCountRow(g, i, j + 1, best)
  ELSE LET n == Len(Possibilities("core", g, i, j))
       IN  IF n = 1 THEN [best EXCEPT !.row = i, !.col = j]
           ELSE IF n < best.min
             THEN CoreCountRow(g, i, j + 1,
                               [best EXCEPT !.row = i, !.col = j, !.min = n])
           ELSE CoreCountRow(g, i, j + 1, best)

RECURSIVE CoreCountScan(_, _, _)
\* the outer loop (over i): if (row !== -1 && minPossibilities === 1) break
CoreCountScan(g, i, best) ==
  IF i > 8 THEN best
  ELSE LET b == CoreCountRow(g, i, 0, best)
       IN  IF b.row # -1 /\ b.min = 1 THEN b
           ELSE CoreCountScan(g, i + 1, b)

-----------------------------------------------------------------------------
(* The recursive searches as a stack machine *)

\* proc names the running procedure: its name, the randomize argument of
\* SudokuSolver.solveGrid and the cap (maxSolutions, or the literal 2)
IsSolve == proc.name \in {"solveGrid", "solveGridWithMRV"}
IsCount == proc.name = "countSolutionsFast"

\* the search works on the caller's own grid object (solveGrid always; the
\* counter of the standalone generator when it is called directly), or on a
\* private copy (workingGrid, gridCopy)
Aliased == IsSolve \/ (op = "count" /\ impl = "gen")

WriteWork(g) ==
  /\ work' = g
  /\ grid' = IF Aliased THEN g ELSE grid

\* the cell a call branches on
Scan(im, p, g) ==
  CASE im = "solver" -> SortScan("solver", g)
    [] im = "core" /\ p.name = "solveGrid" -> FirstEmpty(g)
    [] im = "core" /\ p.name = "solveGridWithMRV" -> SortScan("core", g)
    [] im = "core" /\ p.name = "countSolutionsFast" -> CoreCountScan(g, 0, NoCell)
    [] OTHER -> GenScan(g, 0, NoCell, p.name = "countSolutionsFast")

\* the list the loop of a call walks, and the random stream after building it
Candidates(im, p, sc, s) ==
  CASE im = "solver" ->
         IF p.name = "solveGrid" /\ p.randomize /\ Len(sc.poss) > 1
           THEN shuffleArray(sc.poss, s)
           ELSE [arr |-> sc.poss, rnd |-> s]
    [] im = "core" -> [arr |-> OneToNine, rnd |-> s]
    [] OTHER -> shuffleArray(sc.poss, s)

\* Rechecks when no loop tests isValidPlacement
RechecksNever(im) == FALSE

\* the loops of SudokuSolver and SudokuCore test isValidPlacement before
\* they place; those of the standalone generator place what the scan found
Rechecks(im) == im \in {"solver", "core"}

\* the positions of f.cands after f.k whose digit the loop would place
Placeable(im, f, g) ==
  {k \in f.k + 1 .. Len(f.cands) :
     Rechecks(im) => isValidPlacement(im, g, f.row, f.col, f.cands[k])}

Min(S) == CHOOSE x \in S : \A y \in S : x <= y

Top == stack[Len(stack)]
Pop == SubSeq(stack, 1, Len(stack) - 1)

\* Place that writes the digit after the accepted one
PlaceSuccessor(g, f, k) == SetCell(g, f.row, f.col, (f.cands[k] % 9) + 1)

\* grid[row][col] = num
Place(g, f, k) == SetCell(g, f.row, f.col, f.cands[k])

\* Undo that leaves the digit in place
UndoNothing(g, f) == g

\* grid[row][col] = 0
Undo(g, f) == SetCell(g, f.row, f.col, 0)

NewFrame(sc, cands, g) ==
  [row |-> sc.row, col |-> sc.col, cands |-> cands, k |-> 0, entry |-> g]

(* solveGrid / solveGridWithMRV *)

\* a call begins: scan; return true when no cell is empty, else enter the loop
SolveCall ==
  /\ ctl = "call" /\ IsSolve
  /\ LET sc == Scan(impl, proc, work)
         c  == Candidates(impl, proc, sc, rnd)
     IN  IF sc.row = -1
           THEN /\ ret' = TRUE
                /\ ctl' = "ret"
                /\ called' = work
                /\ UNCHANGED <<stack, rnd>>
           ELSE /\ stack' = Append(stack, NewFrame(sc, c.arr, work))
                /\ rnd' = c.rnd
                /\ ctl' = "loop"
                /\ UNCHANGED <<ret, called>>
  /\ UNCHANGED <<impl, op, grid, work, proc, count, cv, out, input>>

\* the loop places its next digit and recurses
SolveTry ==
  /\ ctl = "loop" /\ IsSolve
  /\ Placeable(impl, Top, work) # {}
  /\ LET k == Min(Placeable(impl, Top, work))
     IN  /\ WriteWork(Place(work, Top, k))
         /\ stack' = [stack EXCEPT ![Len(stack)].k = k]
  /\ ctl' = "call"
  /\ UNCHANGED <<impl, op, proc, ret, count, cv, rnd, out, input, called>>

\* the loop has run out of digits: return false
SolveFail ==
  /\ ctl = "loop" /\ IsSolve
  /\ Placeable(impl, Top, work) = {}
  /\ ret' = FALSE
  /\ called' = Top.entry
  /\ stack' = Pop
  /\ ctl' = "ret"
  /\ UNCHANGED <<impl, op, grid, work, proc, count, cv, rnd, out, input>>

\* the recursive call returned false: undo the placement, go on with the loop
SolveBacktrack ==
  /\ ctl = "ret" /\ IsSolve /\ stack # <<>>
  /\ ret = FALSE
  /\ WriteWork(Undo(work, Top))
  /\ ctl' = "loop"
  /\ UNCHANGED <<impl, op, proc, stack, ret, count, cv, rnd, out, input, called>>

\* the recursive call returned true: return true
SolveSucceed ==
  /\ ctl = "ret" /\ IsSolve /\ stack # <<>>
  /\ ret = TRUE
  /\ called' = Top.entry
  /\ stack' = Pop
  /\ UNCHANGED <<impl, op, grid, work, proc, ctl, ret, count, cv, rnd, out, input>>

(* countSolutionsFast / backtrack *)

\* CapReached with > for >=
CapReachedLate(n) == n > proc.cap

\* solutionCount >= maxSolutions, solutionCounter.count >= 2
CapReached(n) == n >= proc.cap

\* a call begins: return at the cap; count a full grid; return on a dead end
\* (the standalone generator during the scan, SudokuSolver after the sort);
\* else enter the loop.  Only the standalone generator's counter returns a
\* value: false means "stop searching".
CountCall ==
  /\ ctl = "call" /\ IsCount
  /\ LET sc == Scan(impl, proc, work)
         c  == Candidates(impl, proc, sc, rnd)
     IN  IF CapReached(count)
           THEN /\ ret' = FALSE
                /\ UNCHANGED <<count, stack, rnd>>
                /\ ctl' = "ret"
         ELSE IF sc.dead
           THEN /\ ret' = TRUE
                /\ UNCHANGED <<count, stack, rnd>>
                /\ ctl' = "ret"
         ELSE IF sc.row = -1
           THEN /\ count' = count + 1
                /\ ret' = (count + 1 < 2)
                /\ UNCHANGED <<stack, rnd>>
                /\ ctl' = "ret"
         ELSE IF impl = "solver" /\ Len(sc.poss) = 0
           THEN /\ ret' = TRUE
                /\ UNCHANGED <<count, stack, rnd>>
                /\ ctl' = "ret"
         ELSE /\ stack' = Append(stack, NewFrame(sc, c.arr, work))
              /\ rnd' = c.rnd
              /\ ctl' = "loop"
              /\ UNCHANGED <<count, ret>>
  /\ called' = IF ctl' = "ret" THEN work ELSE called
  /\ UNCHANGED <<impl, op, grid, work, proc, cv, out, input>>

\* the loop places its next digit and recurses
CountTry ==
  /\ ctl = "loop" /\ IsCount
  /\ Placeable(impl, Top, work) # {}
  /\ LET k == Min(Placeable(impl, Top, work))
     IN  /\ WriteWork(Place(work, Top, k))
         /\ stack' = [stack EXCEPT ![Len(stack)].k = k]
  /\ ctl' = "call"
  /\ UNCHANGED <<impl, op, proc, ret, count, cv, rnd, out, input, called>>

\* the loop has run out of digits: return (true: keep searching)
CountExhaust ==
  /\ ctl = "loop" /\ IsCount
  /\ Placeable(impl, Top, work) = {}
  /\ ret' = TRUE
  /\ called' = Top.entry
  /\ stack' = Pop
  /\ ctl' = "ret"
  /\ UNCHANGED <<impl, op, grid, work, proc, count, cv, rnd, out, input>>

\* UndoOnStop that leaves the digit in place
UndoOnStopMissing(g, f) == g

\* grid[bestRow][bestCol] = 0 on the path that returns right after the call
UndoOnStop(g, f) == SetCell(g, f.row, f.col, 0)

\* StopsAfterCall without the test after the recursive call
StopsAfterCallNever == FALSE

\* after the recursive call: does this call return at once?  The standalone
\* generator returns when the callee said stop or the cap is reached, the
\* other two when the cap is reached.
StopsAfterCall ==
  IF impl = "gen" THEN ~ret \/ count >= 2 ELSE CapReached(count)

\* the recursive call returned and the search goes on: undo, next digit
CountBacktrack ==
  /\ ctl = "ret" /\ IsCount /\ stack # <<>>
  /\ ~StopsAfterCall
  /\ WriteWork(Undo(work, Top))
  /\ ctl' = "loop"
  /\ UNCHANGED <<impl, op, proc, stack, ret, count, cv, rnd, out, input, called>>

\* the recursive call returned and the search is over: undo, return
CountStop ==
  /\ ctl = "ret" /\ IsCount /\ stack # <<>>
  /\ StopsAfterCall
  /\ WriteWork(UndoOnStop(work, Top))
  /\ ret' = FALSE
  /\ called' = Top.entry
  /\ stack' = Pop
  /\ UNCHANGED <<impl, op, proc, ctl, count, cv, rnd, out, input>>

-----------------------------------------------------------------------------
(* Input grids *)

\* a solved grid: the one SudokuSolver.solveGrid(grid, false) fills into the
\* empty grid
SolvedRows ==
  << <<1, 2, 3, 4, 5, 6, 7, 8, 9>>,
     <<4, 5, 6, 7, 8, 9, 1, 2, 3>>,
     <<7, 8, 9, 1, 2, 3, 4, 5, 6>>,
     <<2, 3, 1, 6, 7, 4, 8, 9, 5>>,
     <<8, 7, 5, 9, 1, 2, 3, 6, 4>>,
     <<6, 9, 4, 5, 3, 8, 2, 1, 7>>,
     <<3, 1, 7, 2, 6, 5, 9, 4, 8>>,
     <<5, 4, 2, 8, 9, 7, 6, 3, 1>>,
     <<9, 6, 8, 3, 4, 1, 5, 7, 2>> >>

Solved == [r \in Idx |-> [c \in Idx |-> SolvedRows[r + 1][c + 1]]]

\* cells an input grid may have empty: (0,0), and the four cells
\* (0,3)=4 (0,5)=6 / (3,3)=6 (3,5)=4, which can be filled in two ways once
\* all four are empty
HoleCells == {<<0, 0>>, <<0, 3>>, <<0, 5>>, <<3, 3>>, <<3, 5>>}

\* an input grid may hold one wrong digit: a 6 at (0,3), where Solved has 4
WrongCells == {<<>>, <<0, 3, 6>>}

RECURSIVE WithHoles(_, _)
WithHoles(g, H) ==
  IF H = {} THEN g
  ELSE LET h == CHOOSE x \in H : TRUE
       IN  WithHoles(SetCell(g, h[1], h[2], 0), H \ {h})

WithWrong(g, w) == IF w = <<>> THEN g ELSE SetCell(g, w[1], w[2], w[3])

HoleSets == {H \in SUBSET HoleCells : Cardinality(H) <= MaxHoles}

InputGrids == {WithHoles(WithWrong(Solved, w), H) : w \in WrongCells, H \in HoleSets}

\* the three diagonal boxes of g, all other cells empty: what
\* generateFullSudoku hands to solveGrid
DiagonalBoxes(g) ==
  [r \in Idx |-> [c \in Idx |-> IF r \div 3 = c \div 3 THEN g[r][c] ELSE 0]]

SparseGrids == {WithHoles(DiagonalBoxes(Solved), H) : H \in HoleSets}

NoCv == [none |-> TRUE]

-----------------------------------------------------------------------------
(* solve, called on a grid *)

SolveProcs(im) ==
  CASE im = "solver" -> {[name |-> "solveGrid", randomize |-> b, cap |-> 0] :
                           b \in BOOLEAN}
    [] im = "core"   -> {[name |-> n, randomize |-> FALSE, cap |-> 0] :
                           n \in {"solveGrid", "solveGridWithMRV"}}
    [] OTHER         -> {[name |-> "solveGrid", randomize |-> TRUE, cap |-> 0]}

\* the stream matters only to a procedure that shuffles
Shuffles(im, p) ==
  \/ im = "gen"
  \/ im = "solver" /\ p.name = "solveGrid" /\ p.randomize

StreamsFor(im, p) ==
  IF Shuffles(im, p) THEN RandomStreams ELSE {[i \in 1 .. RandLen |-> 0]}

InitSolve ==
  /\ impl \in {"solver", "core", "gen"}
  /\ op = "solve"
  /\ grid \in InputGrids \cup {createEmptyGrid}
  /\ proc \in SolveProcs(impl)
  /\ rnd \in StreamsFor(impl, proc)
  /\ work = grid
  /\ input = grid
  /\ called = grid
  /\ stack = <<>>
  /\ ctl = "call"
  /\ ret = FALSE
  /\ count = 0
  /\ cv = NoCv
  /\ out = "none"

\* the outermost call has returned to the caller
SolveDone ==
  /\ op = "solve" /\ ctl = "ret" /\ stack = <<>>
  /\ out' = ret
  /\ ctl' = "done"
  /\ UNCHANGED <<impl, op, grid, work, proc, stack, ret, count, cv, rnd, input,
                 called>>

NextSolve ==
  \/ SolveCall
  \/ SolveTry
  \/ SolveFail
  \/ SolveBacktrack
  \/ SolveSucceed
  \/ SolveDone

SpecSolve == InitSolve /\ [][NextSolve]_vars

-----------------------------------------------------------------------------
(* the uniqueness count, called on a grid *)

\* largest maxSolutions passed to SudokuSolver.countSolutionsFast
MaxCap == 3

\* SudokuSolver.countSolutionsFast(grid, maxSolutions); the other two stop
\* at the literal 2
CountProcs(im) ==
  {[name |-> "countSolutionsFast", randomize |-> FALSE, cap |-> n] :
     n \in IF im = "solver" THEN 0 .. MaxCap ELSE {2}}

\* SudokuSolver.countSolutionsFast and hasUniqueSolution copy the grid; the
\* counter of the standalone generator works on the grid it is given
InitCount ==
  /\ impl \in {"solver", "core", "gen"}
  /\ op = "count"
  /\ grid \in InputGrids
  /\ proc \in CountProcs(impl)
  /\ rnd \in StreamsFor(impl, proc)
  /\ work = cloneGrid(grid)
  /\ input = grid
  /\ called = grid
  /\ stack = <<>>
  /\ ctl = "call"
  /\ ret = FALSE
  /\ count = 0
  /\ cv = NoCv
  /\ out = "none"

\* the outermost call has returned: SudokuSolver returns solutionCount,
\* hasUniqueSolution returns count === 1, the standalone generator's caller
\* reads solutionCounter.count
CountDone ==
  /\ op = "count" /\ ctl = "ret" /\ stack = <<>>
  /\ out' = IF impl = "core" THEN (count = 1) ELSE count
  /\ ctl' = "done"
  /\ UNCHANGED <<impl, op, grid, work, proc, stack, ret, count, cv, rnd, input,
                 called>>

NextCount ==
  \/ CountCall
  \/ CountTry
  \/ CountExhaust
  \/ CountBacktrack
  \/ CountStop
  \/ CountDone

SpecCount == InitCount /\ [][NextCount]_vars

-----------------------------------------------------------------------------
(* isValidPlacement, called on a grid *)

InitValid ==
  /\ impl \in {"solver", "core", "gen"}
  /\ op = "isValidPlacement"
  /\ grid \in InputGrids \cup SparseGrids
  /\ cv \in [row : Idx, col : Idx, num : Digits]
  /\ proc = [name |-> "isValidPlacement", randomize |-> FALSE, cap |-> 0]
  /\ rnd = [i \in 1 .. RandLen |-> 0]
  /\ work = grid
  /\ input = grid
  /\ called = grid
  /\ stack = <<>>
  /\ ctl = "call"
  /\ ret = FALSE
  /\ count = 0
  /\ out = "none"

\* the call: nothing is assigned but the result
ValidCall ==
  /\ op = "isValidPlacement" /\ ctl = "call"
  /\ out' = isValidPlacement(impl, grid, cv.row, cv.col, cv.num)
  /\ ctl' = "done"
  /\ UNCHANGED <<impl, op, grid, work, proc, stack, ret, count, cv, rnd, input,
                 called>>

NextValid == ValidCall

SpecValid == InitValid /\ [][NextValid]_vars

-----------------------------------------------------------------------------
(* generateFullSudoku *)

\* InBox with every box written into the top band: grid[row][i*3 + col]
InBoxOfTopBand(i, r, c) == r \div 3 = 0 /\ c \div 3 = i

\* the cells grid[i*3 + row][i*3 + col], row, col in 0..2
InBox(i, r, c) == r \div 3 = i /\ c \div 3 = i

\* numbers[row*3 + col] (standalone generator); nums[index++] walks the box
\* in the same order (SudokuCore)
BoxIndex(row, col) == row * 3 + col

\* grid[i*3 + row][i*3 + col] = numbers[row*3 + col] for the nine cells of
\* diagonal box i
FillBox(g, i, numbers) ==
  [r \in Idx |-> [c \in Idx |->
     IF InBox(i, r, c)
       THEN numbers[BoxIndex(r % 3, c % 3) + 1]
       ELSE g[r][c]]]

RECURSIVE FillDiagonal(_, _, _)
\* for (box = 0; box < 3; box++) { shuffle 1..9; fill the box }
FillDiagonal(g, i, s) ==
  IF i > 2 THEN [grid |-> g, rnd |-> s]
  ELSE LET sh == shuffleArray(OneToNine, s)
       IN  FillDiagonal(FillBox(g, i, sh.arr), i + 1, sh.rnd)

\* the solver generateFullSudoku hands its grid to
GenProc(im) ==
  [name |-> "solveGrid", randomize |-> (im # "core"), cap |-> 0]

\* generateFullSudoku begins: a new grid, the diagonal boxes (SudokuCore and
\* the standalone generator), then the call of solveGrid
GenBegin ==
  /\ ctl = "generate"
  /\ LET d == IF impl = "solver"
                THEN [grid |-> createEmptyGrid, rnd |-> rnd]
                ELSE FillDiagonal(createEmptyGrid, 0, rnd)
     IN  /\ grid' = d.grid
         /\ work' = d.grid
         /\ called' = d.grid
         /\ rnd' = d.rnd
  /\ proc' = GenProc(impl)
  /\ stack' = <<>>
  /\ ctl' = "call"
  /\ UNCHANGED <<impl, op, ret, count, cv, out, input>>

\* solveGrid has returned to generateFullSudoku, which ignores the result
\* and returns the grid (to the caller, or to the puzzle generator)
GenDone ==
  /\ op \in {"generate", "puzzle", "pregenerate"}
  /\ IsSolve /\ ctl = "ret" /\ stack = <<>>
  /\ IF op = "generate"
       THEN /\ out' = "grid"
            /\ ctl' = "done"
            /\ UNCHANGED cv
       ELSE /\ cv' = [cv EXCEPT !.full = grid]
            /\ ctl' = "remove"
            /\ UNCHANGED out
  /\ UNCHANGED <<impl, op, grid, work, proc, stack, ret, count, rnd, input,
                 called>>

InitGen ==
  /\ impl \in {"solver", "core", "gen"}
  /\ op = "generate"
  /\ grid = createEmptyGrid
  /\ proc = GenProc(impl)
  /\ rnd \in RandomStreams
  /\ work = grid
  /\ input = grid
  /\ called = grid
  /\ stack = <<>>
  /\ ctl = "generate"
  /\ ret = FALSE
  /\ count = 0
  /\ cv = NoCv
  /\ out = "none"

NextGen ==
  \/ GenBegin
  \/ SolveCall
  \/ SolveTry
  \/ SolveFail
  \/ SolveBacktrack
  \/ SolveSucceed
  \/ GenDone

SpecGen == InitGen /\ [][NextGen]_vars

-----------------------------------------------------------------------------
(* removeNumbers *)

\* this.difficultyLevels of SudokuSolver
difficultyLevels ==
  [easy   |-> [removeCount |-> 30, minCount |-> 45],
   medium |-> [removeCount |-> 40, minCount |-> 35],
   hard   |-> [removeCount |-> 50, minCount |-> 25],
   expert |-> [removeCount |-> 55, minCount |-> 20],
   master |-> [removeCount |-> 60, minCount |-> 17]]

\* difficultyConfig of SudokuCore
difficultyConfigCore ==
  [easy   |-> [minClues |-> 36, maxClues |-> 45],
   medium |-> [minClues |-> 31, maxClues |-> 35],
   hard   |-> [minClues |-> 26, maxClues |-> 30],
   expert |-> [minClues |-> 22, maxClues |-> 25],
   master |-> [minClues |-> 17, maxClues |-> 21]]

\* difficultyConfig of the standalone generator (the code reads targetRemoved
\* only)
difficultyConfigGen ==
  [easy   |-> [targetRemoved |-> 30, maxAttempts |-> 1000, timeout |-> 10000],
   medium |-> [targetRemoved |-> 40, maxAttempts |-> 2000, timeout |-> 15000],
   hard   |-> [targetRemoved |-> 50, maxAttempts |-> 3000, timeout |-> 20000],
   expert |-> [targetRemoved |-> 55, maxAttempts |-> 5000, timeout |-> 25000],
   master |-> [targetRemoved |-> 60, maxAttempts |-> 10000, timeout |-> 30000]]

\* const maxAttempts = 1000 of removeNumbers of SudokuCore
CoreMaxAttempts == 1000

\* const maxAttempts = 50 of generateSudokuPuzzle of the standalone generator
PuzzleMaxAttempts == 50

\* the locals of removeNumbers and of the puzzle generator around it
CvInit(difficulty, n, full) ==
  [difficulty |-> difficulty, count |-> n, full |-> full,
   cellsToRemove |-> 0, minCount |-> 0, positions |-> <<>>, cellIndex |-> 0,
   removed |-> 0, removedPositions |-> <<>>, removedCells |-> {},
   attempts |-> 0, maxAttempts |-> 0, cell |-> <<0, 0>>, backup |-> 0,
   warned |-> FALSE, puzzleAttempts |-> 0,
   batch |-> 0, tier |-> 0, i |-> 0, generated |-> 0]

\* how many cells of g are empty / hold a digit
emptyCount(g) == Cardinality({x \in Cells : g[x[1]][x[2]] = 0})
remainingNumbers(g) == 81 - emptyCount(g)

\* removeNumbers begins: copy the grid, read the configuration, shuffle the
\* 81 positions.  SudokuSolver falls back to the medium tier for a tag it
\* does not know; SudokuCore destructures undefined, which throws a
\* TypeError; the standalone generator is handed a number.
CarveBegin ==
  /\ ctl = "remove"
  /\ grid' = cloneGrid(cv.full)
  /\ CASE impl = "solver" ->
            LET config == IF cv.difficulty \in DOMAIN difficultyLevels
                            THEN difficultyLevels[cv.difficulty]
                            ELSE difficultyLevels.medium
                sh == shuffleArray(CellSeq, rnd)
            IN  /\ cv' = [cv EXCEPT !.cellsToRemove = config.removeCount,
                                    !.minCount = config.minCount,
                                    !.removedPositions = <<>>,
                                    !.positions = sh.arr,
                                    !.cellIndex = 0]
                /\ rnd' = sh.rnd
                /\ ctl' = "carve"
                /\ UNCHANGED out
       [] impl = "core" ->
            IF cv.difficulty \notin DOMAIN difficultyConfigCore
              THEN /\ out' = "TypeError"
                   /\ ctl' = "done"
                   /\ UNCHANGED <<cv, rnd>>
              ELSE LET config == difficultyConfigCore[cv.difficulty]
                       cluesToKeep ==
                         RandomInt(rnd, config.maxClues - config.minClues + 1)
                           + config.minClues
                       sh == shuffleArray(CellSeq, Advance(rnd))
                   IN  /\ cv' = [cv EXCEPT !.cellsToRemove = 81 - cluesToKeep,
                                           !.removedCells = {},
                                           !.positions = sh.arr,
                                           !.attempts = 0,
                                           !.maxAttempts = CoreMaxAttempts,
                                           !.cellIndex = 0]
                       /\ rnd' = sh.rnd
                       /\ ctl' = "carve"
                       /\ UNCHANGED out
       [] OTHER ->
            LET sh == shuffleArray(CellSeq, rnd)
            IN  /\ cv' = [cv EXCEPT !.removed = 0,
                                    !.attempts = 0,
                                    !.maxAttempts = cv.count * 100,
                                    !.positions = sh.arr]
                /\ rnd' = sh.rnd
                /\ ctl' = "carve"
                /\ UNCHANGED out
  /\ UNCHANGED <<impl, op, work, proc, stack, ret, count, input, called>>

\* CarveGoesOn without the test of the number of removals
CarveGoesOnPastTarget ==
  CASE impl = "solver" -> cv.cellIndex < Len(cv.positions)
    [] impl = "core" -> cv.attempts < cv.maxAttempts
    [] OTHER -> cv.attempts < cv.maxAttempts /\ Len(cv.positions) > 0

\* the condition under which the carving loop runs once more
CarveGoesOn ==
  CASE impl = "solver" ->
         cv.cellIndex < Len(cv.positions) /\ cv.cellsToRemove > 0
    [] impl = "core" ->
         Cardinality(cv.removedCells) < cv.cellsToRemove
           /\ cv.attempts < cv.maxAttempts
    [] OTHER ->
         cv.removed < cv.count /\ cv.attempts < cv.maxAttempts
           /\ Len(cv.positions) > 0

\* the uniqueness count is started on a copy of the puzzle g
StartCount(g) ==
  /\ grid' = g
  /\ work' = cloneGrid(g)
  /\ count' = 0
  /\ stack' = <<>>
  /\ proc' = [name |-> "countSolutionsFast", randomize |-> FALSE, cap |-> 2]
  /\ ctl' = "call"

\* Skipped that skips no cell
SkippedNever(pos) == FALSE

\* removedCells.has(cellId) || puzzle[row][col] === 0
Skipped(pos) == pos \in cv.removedCells \/ grid[pos[1]][pos[2]] = 0

\* one round of the carving loop, up to the call of the counter: take the
\* next position, empty the cell, count.  SudokuCore shuffles again when its
\* list is used up and skips a cell it removed already; the standalone
\* generator pops the position off the list and skips an empty cell.
CarveStep ==
  /\ ctl = "carve" /\ CarveGoesOn
  /\ CASE impl = "solver" ->
            LET pos == cv.positions[cv.cellIndex + 1]
                backup == grid[pos[1]][pos[2]]
            IN  /\ cv' = [cv EXCEPT !.cellIndex = @ + 1,
                                    !.cell = pos,
                                    !.backup = backup,
                                    !.removedPositions =
                                       Append(@, <<pos[1], pos[2], backup>>)]
                /\ StartCount(SetCell(grid, pos[1], pos[2], 0))
                /\ UNCHANGED rnd
       [] impl = "core" ->
            LET again == cv.cellIndex >= Len(cv.positions)
                sh == IF again THEN shuffleArray(cv.positions, rnd)
                      ELSE [arr |-> cv.positions, rnd |-> rnd]
                cellIndex == IF again THEN 0 ELSE cv.cellIndex
                pos == sh.arr[cellIndex + 1]
            IN  /\ rnd' = sh.rnd
                /\ IF Skipped(pos)
                     THEN /\ cv' = [cv EXCEPT !.positions = sh.arr,
                                              !.cellIndex = cellIndex + 1]
                          /\ UNCHANGED <<grid, work, count, stack, proc, ctl>>
                     ELSE /\ cv' = [cv EXCEPT !.positions = sh.arr,
                                              !.cellIndex = cellIndex + 1,
                                              !.cell = pos,
                                              !.backup = grid[pos[1]][pos[2]]]
                          /\ StartCount(SetCell(grid, pos[1], pos[2], 0))
       [] OTHER ->
            LET posIndex == Len(cv.positions)
                pos == cv.positions[posIndex]
                rest == SubSeq(cv.positions, 1, posIndex - 1)
            IN  /\ UNCHANGED rnd
                /\ IF grid[pos[1]][pos[2]] # 0
                     THEN /\ cv' = [cv EXCEPT !.attempts = @ + 1,
                                              !.positions = rest,
                                              !.cell = pos,
                                              !.backup = grid[pos[1]][pos[2]]]
                          /\ StartCount(SetCell(grid, pos[1], pos[2], 0))
                     ELSE /\ cv' = [cv EXCEPT !.attempts = @ + 1,
                                              !.positions = rest]
                          /\ UNCHANGED <<grid, work, count, stack, proc, ctl>>
  /\ UNCHANGED <<impl, op, ret, out, input, called>>

\* IsUnique that accepts more than one solution
IsUniqueOrMore(n) == n >= 1

\* solutionCount !== 1 rolls back, solutionCounter.count === 1 keeps the
\* removal
IsUnique(n) == n = 1

\* the counter has returned to removeNumbers: keep the removal, or put the
\* digit back
CarveCheck ==
  /\ op \in {"carve", "puzzle", "pregenerate"}
  /\ IsCount /\ ctl = "ret" /\ stack = <<>>
  /\ LET pos == cv.cell
         restored == SetCell(grid, pos[1], pos[2], cv.backup)
     IN  CASE impl = "solver" ->
                IF IsUnique(count)
                  THEN /\ cv' = [cv EXCEPT !.cellsToRemove = @ - 1]
                       /\ UNCHANGED grid
                  ELSE /\ cv' = [cv EXCEPT !.removedPositions =
                                              SubSeq(@, 1, Len(@) - 1)]
                       /\ grid' = restored
           [] impl = "core" ->
                IF IsUnique(count)
                  THEN /\ cv' = [cv EXCEPT !.removedCells = @ \cup {pos},
                                           !.attempts = 0]
                       /\ UNCHANGED grid
                  ELSE /\ cv' = [cv EXCEPT !.attempts = @ + 1]
                       /\ grid' = restored
           [] OTHER ->
                IF IsUnique(count)
                  THEN /\ cv' = [cv EXCEPT !.removed = @ + 1]
                       /\ UNCHANGED grid
                  ELSE /\ grid' = restored
                       /\ UNCHANGED cv
  /\ ctl' = "carve"
  /\ UNCHANGED <<impl, op, work, proc, stack, ret, count, rnd, out, input,
                 called>>

RECURSIVE RestoreLast(_, _, _)
\* pos = removedPositions.pop(); puzzleGrid[pos.row][pos.col] = pos.value,
\* n times
RestoreLast(g, removedPositions, n) ==
  IF n <= 0 \/ Len(removedPositions) = 0 THEN g
  ELSE LET pos == removedPositions[Len(removedPositions)]
       IN  RestoreLast(SetCell(g, pos[1], pos[2], pos[3]),
                       SubSeq(removedPositions, 1, Len(removedPositions) - 1),
                       n - 1)

\* the carving loop is over: SudokuSolver puts digits back while fewer than
\* minCount are left, SudokuCore warns when its attempts are used up, and
\* the puzzle is returned
CarveFinish ==
  /\ ctl = "carve" /\ ~CarveGoesOn
  /\ CASE impl = "solver" ->
            LET countToRestore ==
                  IF cv.minCount - remainingNumbers(grid) > 0
                    THEN cv.minCount - remainingNumbers(grid) ELSE 0
            IN  /\ grid' = IF remainingNumbers(grid) < cv.minCount
                              /\ Len(cv.removedPositions) > 0
                             THEN RestoreLast(grid, cv.removedPositions,
                                              countToRestore)
                             ELSE grid
                /\ cv' = IF remainingNumbers(grid) < cv.minCount
                            THEN [cv EXCEPT !.removedPositions =
                                    SubSeq(@, 1, Len(@) - countToRestore)]
                            ELSE cv
       [] impl = "core" ->
            /\ cv' = [cv EXCEPT !.warned = (cv.attempts >= cv.maxAttempts)]
            /\ UNCHANGED grid
       [] OTHER -> UNCHANGED <<grid, cv>>
  /\ out' = IF op = "carve" THEN "puzzle" ELSE out
  /\ ctl' = IF op = "carve" THEN "done" ELSE "check"
  /\ UNCHANGED <<impl, op, work, proc, stack, ret, count, rnd, input, called>>

(* generatePuzzle / generateSudokuPuzzle *)

\* where the puzzle generator returns or throws to: its caller outside, or
\* preGeneratePuzzles
PuzzleEnd == IF op = "puzzle" THEN "done" ELSE "back"

\* the puzzle generator begins.  The standalone generator looks the tag up
\* and throws an Error for a tag it does not know; then each of the three
\* calls generateFullSudoku.
PuzzleBegin ==
  /\ op \in {"puzzle", "pregenerate"} /\ ctl = "start"
  /\ IF impl = "gen" /\ cv.difficulty \notin DOMAIN difficultyConfigGen
       THEN /\ out' = "Error"
            /\ ctl' = PuzzleEnd
            /\ UNCHANGED cv
       ELSE /\ cv' = IF impl = "gen"
                       THEN [cv EXCEPT !.puzzleAttempts = 1,
                                       !.count = difficultyConfigGen[cv.difficulty].targetRemoved]
                       ELSE cv
            /\ ctl' = "generate"
            /\ UNCHANGED out
  /\ UNCHANGED <<impl, op, grid, work, proc, stack, ret, count, rnd, input,
                 called>>

\* removeNumbers has returned to the puzzle generator.  SudokuSolver and
\* SudokuCore return the pair; the standalone generator returns it when
\* emptyCount >= targetRemoved * 0.8, else it starts over, and throws an
\* Error after PuzzleMaxAttempts rounds.
PuzzleCheck ==
  /\ op \in {"puzzle", "pregenerate"} /\ ctl = "check"
  /\ IF impl # "gen" \/ emptyCount(grid) * 10 >= cv.count * 8
       THEN /\ out' = "puzzle"
            /\ ctl' = PuzzleEnd
            /\ UNCHANGED cv
     ELSE IF cv.puzzleAttempts < PuzzleMaxAttempts
       THEN /\ cv' = [cv EXCEPT !.puzzleAttempts = @ + 1]
            /\ ctl' = "generate"
            /\ UNCHANGED out
     ELSE /\ out' = "Error"
          /\ ctl' = PuzzleEnd
          /\ UNCHANGED cv
  /\ UNCHANGED <<impl, op, grid, work, proc, stack, ret, count, rnd, input,
                 called>>

\* the five tiers of the three tables
Tiers == DOMAIN difficultyLevels

\* the tags explored at every stream: one tier, and a tag that is in no table
Tags == {"easy", "unknown"}

\* the largest count removeNumbers of the standalone generator is called with
MaxCount == 17

\* the streams explored: Math.random() returns the same value every time
ZeroStream == [i \in 1 .. RandLen |-> 0]
ConstantStreams == {[i \in 1 .. RandLen |-> k] : k \in 0 .. RandDen - 1}

\* the calls explored: removeNumbers of SudokuSolver (every tier) and of the
\* standalone generator (a count) on a solved grid, and the three puzzle
\* generators, which make the solved grid themselves (SudokuCore does not
\* export its removeNumbers)
CarveCalls ==
  {[impl |-> "solver", op |-> "carve", difficulty |-> t, count |-> 0,
    full |-> Solved, rnd |-> s] : t \in Tags, s \in ConstantStreams}
  \cup {[impl |-> "solver", op |-> "carve", difficulty |-> t, count |-> 0,
         full |-> Solved, rnd |-> ZeroStream] : t \in Tiers}
  \cup {[impl |-> "gen", op |-> "carve", difficulty |-> "", count |-> n,
         full |-> Solved, rnd |-> s] : n \in 0 .. MaxCount, s \in ConstantStreams}
  \cup {[impl |-> im, op |-> "puzzle", difficulty |-> t, count |-> 0,
         full |-> createEmptyGrid, rnd |-> s] :
          im \in {"solver", "core", "gen"}, t \in Tags, s \in ConstantStreams}

InitCarve ==
  /\ \E c \in CarveCalls :
        /\ impl = c.impl
        /\ op = c.op
        /\ cv = CvInit(c.difficulty, c.count, c.full)
        /\ grid = c.full
        /\ rnd = c.rnd
        /\ ctl = IF c.op = "carve" THEN "remove" ELSE "start"
  /\ proc = [name |-> "none", randomize |-> FALSE, cap |-> 0]
  /\ work = grid
  /\ input = grid
  /\ called = grid
  /\ stack = <<>>
  /\ ret = FALSE
  /\ count = 0
  /\ out = "none"

NextCarve ==
  \/ PuzzleBegin
  \/ GenBegin
  \/ SolveCall
  \/ SolveTry
  \/ SolveFail
  \/ SolveBacktrack
  \/ SolveSucceed
  \/ GenDone
  \/ CarveBegin
  \/ CarveStep
  \/ CountCall
  \/ CountTry
  \/ CountExhaust
  \/ CountBacktrack
  \/ CountStop
  \/ CarveCheck
  \/ CarveFinish
  \/ PuzzleCheck

SpecCarve == InitCarve /\ [][NextCarve]_vars

(* preGeneratePuzzles of the standalone generator *)

\* Object.keys(difficultyConfig), in the order of the table
TierSeq == <<"easy", "medium", "hard", "expert", "master">>

\* largest number of puzzles per tier asked of preGeneratePuzzles
MaxBatch == 2

\* the head of the two for loops: call generateSudokuPuzzle for the next
\* puzzle of the tier, go to the next tier, or save the batch and return it
PreGenStep ==
  /\ op = "pregenerate" /\ ctl = "pre"
  /\ IF cv.i < cv.batch
       THEN /\ ctl' = "start"
            /\ UNCHANGED <<cv, out>>
     ELSE IF cv.tier < Len(TierSeq)
       THEN /\ cv' = [cv EXCEPT !.tier = @ + 1,
                                !.difficulty = TierSeq[cv.tier + 1],
                                !.i = 0]
            /\ UNCHANGED <<ctl, out>>
     ELSE /\ out' = "puzzles"
          /\ ctl' = "done"
          /\ UNCHANGED cv
  /\ UNCHANGED <<impl, op, grid, work, proc, stack, ret, count, rnd, input,
                 called>>

\* generateSudokuPuzzle is back in preGeneratePuzzles: its puzzle is pushed;
\* its Error is caught and logged and i is decremented; then the loop's i++
PreGenBack ==
  /\ op = "pregenerate" /\ ctl = "back"
  /\ cv' = IF out = "puzzle"
             THEN [cv EXCEPT !.generated = @ + 1, !.i = @ + 1]
             ELSE [cv EXCEPT !.i = (@ - 1) + 1]
  /\ out' = "none"
  /\ ctl' = "pre"
  /\ UNCHANGED <<impl, op, grid, work, proc, stack, ret, count, rnd, input,
                 called>>

\* the largest number of empty cells that is below 0.8 * target
Short(target) ==
  CHOOSE e \in 0 .. target : e * 10 < target * 8 /\ (e + 1) * 10 >= target * 8

\* a puzzle of e empty cells, the first e cells of the solved grid in
\* row-major order
Emptied(e) ==
  [r \in Idx |-> [c \in Idx |-> IF r * 9 + c < e THEN 0 ELSE Solved[r][c]]]

\* One round of generateSudokuPuzzle from generateFullSudoku() to the puzzle
\* removeNumbers returns, taken in one step.  What the round yields depends
\* on Math.random(); here it is drawn: a puzzle with the target number of
\* empty cells, or one just short of 0.8 * target.  Of the puzzle only its
\* number of empty cells is looked at afterwards.
RoundOutcome ==
  /\ op \in {"puzzle", "pregenerate"} /\ impl = "gen" /\ ctl = "generate"
  /\ \E e \in {cv.count, Short(cv.count)} : grid' = Emptied(e)
  /\ ctl' = "check"
  /\ UNCHANGED <<impl, op, work, proc, stack, ret, count, cv, rnd, out,
                 input, called>>

InitRetry ==
  /\ impl = "gen"
  /\ \/ /\ op = "puzzle"
        /\ ctl = "start"
        /\ \E t \in Tiers \cup {"unknown"} : cv = CvInit(t, 0, Solved)
     \/ /\ op = "pregenerate"
        /\ ctl = "pre"
        /\ \E n \in 0 .. MaxBatch :
              cv = [CvInit(TierSeq[1], 0, Solved) EXCEPT !.batch = n,
                                                         !.tier = 1]
  /\ grid = Solved
  /\ rnd = ZeroStream
  /\ proc = [name |-> "none", randomize |-> FALSE, cap |-> 0]
  /\ work = grid
  /\ input = grid
  /\ called = grid
  /\ stack = <<>>
  /\ ret = FALSE
  /\ count = 0
  /\ out = "none"

NextRetry ==
  \/ PreGenStep
  \/ PuzzleBegin
  \/ RoundOutcome
  \/ PuzzleCheck
  \/ PreGenBack

\* the program is single-threaded and every step of it is taken in turn:
\* a run stops only where no step is left
SpecRetry == InitRetry /\ [][NextRetry]_vars /\ WF_vars(NextRetry)

(* The carving loop of SudokuCore late in a run *)

\* the grid generateFullSudoku of SudokuCore returns when every Math.random()
\* is 0
CoreFullRows ==
  << <<2, 3, 4, 1, 5, 6, 7, 8, 9>>,
     <<5, 6, 7, 3, 8, 9, 1, 4, 2>>,
     <<8, 9, 1, 4, 7, 2, 3, 5, 6>>,
     <<1, 5, 6, 2, 3, 4, 9, 7, 8>>,
     <<9, 2, 8, 5, 6, 7, 4, 1, 3>>,
     <<4, 7, 3, 8, 9, 1, 6, 2, 5>>,
     <<6, 8, 9, 7, 1, 5, 2, 3, 4>>,
     <<3, 1, 2, 9, 4, 8, 5, 6, 7>>,
     <<7, 4, 5, 6, 2, 3, 8, 9, 1>> >>

CoreFull == [r \in Idx |-> [c \in Idx |-> CoreFullRows[r + 1][c + 1]]]

\* what removeNumbers of SudokuCore has made of it in that run at the master
\* tier, from its 55th removal on: none of the 26 digits left can be removed
CoreLateRows ==
  << <<2, 0, 0, 0, 0, 0, 0, 0, 0>>,
     <<0, 0, 0, 0, 0, 0, 0, 0, 0>>,
     <<0, 0, 0, 4, 0, 0, 0, 5, 6>>,
     <<0, 0, 6, 0, 0, 0, 0, 0, 8>>,
     <<0, 0, 0, 5, 0, 0, 4, 0, 3>>,
     <<0, 0, 3, 0, 9, 1, 0, 2, 0>>,
     <<0, 0, 9, 0, 1, 0, 0, 0, 4>>,
     <<0, 1, 0, 0, 0, 0, 5, 6, 7>>,
     <<0, 4, 5, 6, 0, 3, 8, 0, 1>> >>

CoreLate == [r \in Idx |-> [c \in Idx |-> CoreLateRows[r + 1][c + 1]]]

RECURSIVE ShuffledTimes(_, _, _)
\* the list after n calls of shuffleArray
ShuffledTimes(a, s, n) ==
  IF n = 0 THEN a
  ELSE CHOOSE r \in {ShuffledTimes(sh.arr, sh.rnd, n - 1) :
                       sh \in {shuffleArray(a, s)}} : TRUE

\* The run generateSudokuPuzzle("master") of SudokuCore with every
\* Math.random() 0, at the head of the carving loop when the list has been
\* gone through for the 39th time: 64 cells are to be removed, 55 are, and
\* the last 990 tests (2 in the first pass, 26 in every later one) failed;
\* the last of them, on the 8 at (3,8), counted two solutions.
CoreLateCall ==
  LET config == difficultyConfigCore.master
      cluesToKeep ==
        RandomInt(ZeroStream, config.maxClues - config.minClues + 1)
          + config.minClues
  IN  [CvInit("master", 0, CoreFull) EXCEPT
         !.cellsToRemove = 81 - cluesToKeep,
         !.removedCells = {x \in Cells : CoreLate[x[1]][x[2]] = 0},
         !.positions = ShuffledTimes(CellSeq, ZeroStream, 39),
         !.attempts = 990,
         !.maxAttempts = CoreMaxAttempts,
         !.cellIndex = 81,
         !.cell = <<3, 8>>,
         !.backup = 8]

\* the carving loops from their beginning (SudokuSolver at its first tier,
\* the standalone generator for every count), and the late state of
\* SudokuCore
InitReshuffle ==
  /\ rnd = ZeroStream
  /\ input = Solved
  /\ stack = <<>>
  /\ ret = FALSE
  /\ out = "none"
  /\ \/ /\ \E c \in {d \in CarveCalls : d.op = "carve" /\ d.rnd = ZeroStream
                                          /\ d.difficulty \in {"", "easy"}} :
              /\ impl = c.impl
              /\ cv = CvInit(c.difficulty, c.count, c.full)
        /\ op = "carve"
        /\ ctl = "remove"
        /\ grid = Solved
        /\ work = Solved
        /\ called = Solved
        /\ proc = [name |-> "none", randomize |-> FALSE, cap |-> 0]
        /\ count = 0
     \/ /\ impl = "core"
        /\ op = "puzzle"
        /\ ctl = "carve"
        /\ cv = CoreLateCall
        /\ grid = CoreLate
        /\ work = SetCell(CoreLate, 3, 8, 0)
        /\ called = SetCell(CoreLate, 3, 8, 0)
        /\ proc = [name |-> "countSolutionsFast", randomize |-> FALSE,
                   cap |-> 2]
        /\ count = 2

NextReshuffle ==
  \/ CarveBegin
  \/ CarveStep
  \/ CountCall
  \/ CountTry
  \/ CountExhaust
  \/ CountBacktrack
  \/ CountStop
  \/ CarveCheck
  \/ CarveFinish
  \/ PuzzleCheck

SpecReshuffle == InitReshuffle /\ [][NextReshuffle]_vars

-----------------------------------------------------------------------------
(* Vocabulary of the claims *)

RowCells(r) == {<<r, c>> : c \in Idx}
ColCells(c) == {<<r, c>> : r \in Idx}
BoxCells(r, c) ==
  {<<i, j>> : i \in 3 * (r \div 3) .. 3 * (r \div 3) + 2,
              j \in 3 * (c \div 3) .. 3 * (c \div 3) + 2}

\* the 27 groups: rows, columns, boxes
Units ==
  {RowCells(r) : r \in Idx} \cup {ColCells(c) : c \in Idx}
    \cup {BoxCells(3 * a, 3 * b) : a \in 0 .. 2, b \in 0 .. 2}

DigitsIn(g, U) == {g[x[1]][x[2]] : x \in U} \ {0}

FilledIn(g, U) == {x \in U : g[x[1]][x[2]] # 0}

\* no digit repeats among the filled cells of any row, column or box
NoRepeat(g) ==
  \A U \in Units : Cardinality(DigitsIn(g, U)) = Cardinality(FilledIn(g, U))

IsFull(g) == \A x \in Cells : g[x[1]][x[2]] # 0

\* no zero, and every row, column and box is a permutation of 1..9
ValidFull(g) == IsFull(g) /\ \A U \in Units : DigitsIn(g, U) = Digits

\* h keeps every filled cell of g
Extends(g, h) == \A x \in Cells : g[x[1]][x[2]] # 0 => h[x[1]][x[2]] = g[x[1]][x[2]]

EmptyOf(g) == {x \in Cells : g[x[1]][x[2]] = 0}

RECURSIVE Fillings(_, _, _)
\* every way to fill the cells E of g with digits missing from the cell's row
\* in g0
Fillings(g0, g, E) ==
  IF E = {} THEN {g}
  ELSE LET x == CHOOSE y \in E : TRUE
       IN  UNION {Fillings(g0, SetCell(g, x[1], x[2], d), E \ {x}) :
                    d \in Digits \ DigitsIn(g0, RowCells(x[1]))}

\* the valid completions of g
Completions(g) == {h \in Fillings(g, g, EmptyOf(g)) : ValidFull(h) /\ Extends(g, h)}

SmallerOf(a, b) == IF a <= b THEN a ELSE b

\* the digits absent from the row, the column and the box of the empty cell x
Allowed(g, x) ==
  Digits \ DigitsIn(g, RowCells(x[1]) \cup ColCells(x[2]) \cup BoxCells(x[1], x[2]))

RECURSIVE Solutions(_)
\* the valid completions of a grid with many empty cells: a completion puts
\* an allowed digit into any one empty cell (here one with the fewest
\* allowed digits) and completes the rest
Solutions(g) ==
  IF EmptyOf(g) = {} THEN (IF ValidFull(g) THEN {g} ELSE {})
  ELSE LET x == CHOOSE y \in EmptyOf(g) :
                  \A z \in EmptyOf(g) :
                     Cardinality(Allowed(g, y)) <= Cardinality(Allowed(g, z))
       IN  UNION {Solutions(SetCell(g, x[1], x[2], d)) : d \in Allowed(g, x)}

-----------------------------------------------------------------------------
(* The claims *)

Done == ctl = "done"

\* num is absent from the row, the column and the box of (row, col)
AbsentAround(g, row, col, num) ==
  num \notin DigitsIn(g, RowCells(row) \cup ColCells(col) \cup BoxCells(row, col))

\* C7: isValidPlacement returns false exactly when the digit is already in
\* the row, the column or the box of the cell, and the three implementations
\* return the same value on the same arguments.
C7_ValidIffAbsent ==
  (op = "isValidPlacement" /\ Done) =>
     /\ out = AbsentAround(input, cv.row, cv.col, cv.num)
     /\ isValidPlacementSolver(input, cv.row, cv.col, cv.num)
          = isValidPlacementCore(input, cv.row, cv.col, cv.num)
     /\ isValidPlacementCore(input, cv.row, cv.col, cv.num)
          = isValidPlacementGen(input, cv.row, cv.col, cv.num)

\* the single-loop version rejects a digit that is only in the box
C7_Witness ==
  /\ op = "isValidPlacement" /\ Done /\ impl = "gen" /\ out = FALSE
  /\ cv.num \notin DigitsIn(input, RowCells(cv.row) \cup ColCells(cv.col))
  /\ input[cv.row][cv.col] = 0

\* C2: on a grid without repeated digits the count is the smaller of the
\* number of valid completions and the cap.
C2_CountIsCappedNumber ==
  (op = "count" /\ Done /\ NoRepeat(input)) =>
     count = SmallerOf(Cardinality(Completions(input)), proc.cap)

\* the standalone counter, with its shuffle, reports 2 for a grid with two
\* completions
C2_Witness ==
  /\ op = "count" /\ Done /\ impl = "gen" /\ NoRepeat(input)
  /\ Cardinality(Completions(input)) = 2
  /\ count = 2

\* C3 as stated: every grid without a valid completion counts 0.
C3_NoCompletionCountsZero ==
  (op = "count" /\ Done /\ Completions(input) = {}) => count = 0

\* C4: on a grid without repeated digits solve returns true exactly when a
\* completion exists; then the grid is full and valid and keeps the given
\* digits.  The all-zero grid is solved.
C4_SolveIffCompletable ==
  (op = "solve" /\ Done /\ NoRepeat(input)) =>
     /\ out = TRUE => ValidFull(grid) /\ Extends(input, grid)
     /\ input = createEmptyGrid => out = TRUE
     /\ out = FALSE => Completions(input) = {}

\* solve fails on a grid without repeated digits that has a hole and no
\* completion
C4_Witness ==
  /\ op = "solve" /\ Done /\ NoRepeat(input) /\ out = FALSE
  /\ ~IsFull(input)

\* C5: whenever a call of solve returns false, at any depth, the grid is
\* what it was when that call began.
C5_FalseLeavesGridAsEntered ==
  /\ (IsSolve /\ ctl = "ret" /\ ret = FALSE) => work = called /\ grid = called
  /\ (op = "solve" /\ Done /\ out = FALSE) => grid = input

\* a nested call of the row-major solver returns false after it placed and
\* took back a digit
C5_Witness ==
  /\ IsSolve /\ ctl = "ret" /\ ret = FALSE /\ stack # <<>>
  /\ impl = "core" /\ proc.name = "solveGrid"
  /\ \E x \in EmptyOf(called) :
        Possibilities("core", called, x[1], x[2]) # <<>>

\* C8: when the uniqueness count returns, the grid the caller passed holds
\* what it held before the call.
C8_CountLeavesGrid ==
  (op = "count" /\ Done) => grid = input

\* the standalone counter, which works on the caller's grid, returns early
\* at two solutions
C8_Witness ==
  /\ op = "count" /\ Done /\ impl = "gen" /\ count = 2
  /\ ~IsFull(input)

\* C6: every grid generateFullSudoku returns is full, and every row, column
\* and box of it is a permutation of 1..9, whatever the random source
\* returned and although the result of the solve call is ignored.
C6_GeneratedGridIsValid ==
  (op = "generate" /\ Done) => ValidFull(grid) /\ ret = TRUE

\* the row-major solver has completed a grid whose diagonal boxes were
\* shuffled
C6_Witness ==
  /\ op = "generate" /\ Done /\ impl = "core" /\ ValidFull(grid)
  /\ \E x \in Cells : x[1] \div 3 = x[2] \div 3 /\ grid[x[1]][x[2]] # Solved[x[1]][x[2]]

\* C1: the puzzle removeNumbers returns for a solved grid has exactly one
\* completion, and this completion is the solved grid: in SudokuSolver (also
\* after its step that puts digits back), in SudokuCore and in the standalone
\* generator, for every tier and every count.
C1_PuzzleHasTheOneSolution ==
  (op \in {"carve", "puzzle"} /\ Done /\ out = "puzzle") =>
     /\ ValidFull(cv.full)
     /\ Solutions(grid) = {cv.full}

\* SudokuCore returns a puzzle with 36 or more empty cells after it put a
\* digit back at least once
C1_Witness ==
  /\ op = "puzzle" /\ Done /\ out = "puzzle" /\ impl = "core"
  /\ emptyCount(grid) >= 36
  /\ cv.cellIndex > Cardinality(cv.removedCells)

\* removeNumbers has returned its puzzle
Carved ==
  /\ op \in {"carve", "puzzle"}
  /\ \/ ctl = "check"
     \/ ctl = "done" /\ out = "puzzle"

\* the number of removals removeNumbers was to make was made
TargetReached ==
  CASE impl = "solver" -> cv.cellsToRemove = 0
    [] impl = "core"   -> Cardinality(cv.removedCells) = cv.cellsToRemove
    [] OTHER           -> cv.removed = cv.count

\* C10 as stated: when removeNumbers returns short of its target, because
\* its attempts or its list of cells ran out, it has reported a warning; when
\* it reached the target it has not.
C10_ShortfallIsWarned ==
  Carved => (cv.warned <=> ~TargetReached)

\* the caller passed a tag that is in no table
UnknownTag == op \in {"carve", "puzzle"} /\ cv.difficulty \notin Tiers \cup {""}

\* C9 as stated: with a tag outside the five tiers no removal is made and
\* no puzzle is returned; the call ends with an error.
C9_UnknownTagIsAnError ==
  UnknownTag =>
     /\ ctl # "carve"
     /\ Done => out \in {"Error", "TypeError"}

\* C11: generation wrapped in a retry loop (generateSudokuPuzzle and
\* preGeneratePuzzles of the standalone generator) makes a bounded number of
\* attempts and then hands a failure to its caller, even if every attempt
\* fails: every run ends, and no call of generateSudokuPuzzle goes beyond
\* PuzzleMaxAttempts rounds.
C11_RetryEnds ==
  /\ [](cv.puzzleAttempts <= PuzzleMaxAttempts)
  /\ <>(ctl = "done")

\* a search has written a digit into a cell that the grid it was called on
\* has empty
Placed == \E x \in Cells : called[x[1]][x[2]] = 0 /\ work[x[1]][x[2]] # 0

\* C12: when the filled cells of the input grid hold no digit twice in a
\* row, column or box, then in every state of solve, of the count and of the
\* carving the filled cells of the working grid and of the puzzle hold no
\* digit twice in a row, column or box.
C12_NoRepeatKept == NoRepeat(input) => NoRepeat(work) /\ NoRepeat(grid)

\* the count called by the carver is two calls deep and has placed a digit
C12_Witness ==
  /\ op \in {"carve", "puzzle"} /\ IsCount /\ Len(stack) >= 2
  /\ NoRepeat(input)
  /\ Placed

\* the number of digits a cell of g can take
Freedom(g, x) == Cardinality(Allowed(g, x))

\* x comes before y, or is y, in the order of the rows and then the columns
ScanOrder(x, y) == x[1] * 9 + x[2] <= y[1] * 9 + y[2]

\* the cell of frame f is, on the grid the call was entered with, an empty
\* cell with the fewest candidates, and the first of those in scan order
MRVChoice(f) ==
  LET x == <<f.row, f.col>>
  IN  /\ f.entry[x[1]][x[2]] = 0
      /\ \A y \in EmptyOf(f.entry) :
            /\ Freedom(f.entry, x) <= Freedom(f.entry, y)
            /\ Freedom(f.entry, y) = Freedom(f.entry, x) => ScanOrder(x, y)

\* the searches that are meant to pick by fewest candidates: all but the
\* plain solveGrid of SudokuCore
PicksByMRV == ~(impl = "core" /\ proc.name = "solveGrid")

\* C13: at every step of the solver and of the count where the grid has an
\* empty cell, the cell branched on is an empty cell with the fewest
\* candidates of all empty cells, and the first of those in row-major order.
C13_BranchesOnFirstFewest ==
  PicksByMRV => \A i \in 1 .. Len(stack) : MRVChoice(stack[i])

\* some empty cell of g can take no digit
DeadEnd(g) == \E x \in EmptyOf(g) : Allowed(g, x) = {}

\* C14: a step of the solver or of the count that is entered on a grid with
\* an empty cell that can take no digit fails at once: it places no digit
\* (and so calls itself on no grid, and counts nothing), and the solver
\* returns false.
C14_DeadEndFailsAtOnce ==
  /\ \A i \in 1 .. Len(stack) : stack[i].k > 0 => ~DeadEnd(stack[i].entry)
  /\ IsSolve /\ ctl = "ret" /\ DeadEnd(called) => ret = FALSE

\* the step writes a digit into no empty cell of the working grid
NothingPlaced == \A x \in Cells : work[x[1]][x[2]] = 0 => work'[x[1]][x[2]] = 0

\* the step starts no call and tries no further candidate: the frames that
\* are left are as they were
NothingTried ==
  /\ Len(stack') <= Len(stack)
  /\ stack' = SubSeq(stack, 1, Len(stack'))

\* C15: during a count the running count grows by one at a time and never
\* goes beyond the cap; once it has reached the cap no digit is placed on
\* the working grid and no candidate is tried at any level: what is left is
\* undoing placements and returning.
C15_CapEndsTheSearch ==
  [][IsCount =>
       /\ count' \in {count, count + 1}
       /\ count' <= proc.cap
       /\ count >= proc.cap =>
            NothingPlaced /\ NothingTried /\ ctl' \in {"ret", "done"}]_vars

\* the cap of two was reached two calls deep, placements are still to undo
C15_Witness ==
  /\ IsCount /\ proc.cap = 2 /\ count = 2
  /\ Len(stack) >= 2
  /\ \E x \in Cells : input[x[1]][x[2]] = 0 /\ work[x[1]][x[2]] # 0

\* the carving loop of removeNumbers is running: between two rounds, or
\* inside the count of a round
Carving ==
  /\ op \in {"carve", "puzzle"}
  /\ \/ ctl = "carve"
     \/ IsCount /\ ctl \in {"call", "loop", "ret"}

\* the number of removals removeNumbers is to make
CarveTarget ==
  CASE impl = "solver" ->
         IF cv.difficulty \in DOMAIN difficultyLevels
           THEN difficultyLevels[cv.difficulty].removeCount
           ELSE difficultyLevels.medium.removeCount
    [] impl = "core" -> cv.cellsToRemove
    [] OTHER -> cv.count

\* the number of removals made and kept so far
Committed ==
  CASE impl = "solver" -> CarveTarget - cv.cellsToRemove
    [] impl = "core" -> Cardinality(cv.removedCells)
    [] OTHER -> cv.removed

\* nothing is left to try: every one of the 81 positions was taken (the two
\* carvers that go through their list once), or the attempts are used up
Exhausted ==
  CASE impl = "solver" -> cv.cellIndex = 81
    [] impl = "core" -> cv.attempts >= CoreMaxAttempts
    [] OTHER -> Len(cv.positions) = 0 \/ cv.attempts >= cv.count * 100

\* C16: carving a complete grid, the removals kept never pass the target and
\* every kept removal empties a cell of its own (between two rounds the
\* empty cells are as many as the removals kept); the puzzle returned has at
\* most target empty cells (SudokuCore: at least the tier's minClues digits),
\* and the loop has ended with the target reached or with nothing left to
\* try.
C16_CarverStopsAtTarget ==
  /\ Carving => Committed <= CarveTarget
  /\ Carving /\ ctl = "carve" => emptyCount(grid) = Committed
  /\ Carved =>
       /\ emptyCount(grid) <= CarveTarget
       /\ impl = "core" =>
            remainingNumbers(grid) >= difficultyConfigCore[cv.difficulty].minClues
       /\ Committed = CarveTarget \/ Exhausted

\* SudokuSolver returns a puzzle with all of at least 30 removals made,
\* after it had put some digit back
C16_Witness ==
  /\ Carved /\ IsFull(cv.full)
  /\ CarveTarget >= 30 /\ emptyCount(grid) = CarveTarget
  /\ impl = "solver" /\ cv.cellIndex > Committed

\* the carver may test the cell: it holds a digit, and SudokuCore has not
\* removed it
Testable(pos) == pos \notin cv.removedCells /\ grid[pos[1]][pos[2]] # 0

\* the part of SudokuCore's list that is still to come holds a cell to test
TestableAhead ==
  \E k \in cv.cellIndex + 1 .. Len(cv.positions) : Testable(cv.positions[k])

\* at the head of SudokuCore's loop: a number above the rounds that can pass
\* before the next test (the rest of the list, or the rest of it and one
\* more list)
PendingSkips ==
  IF ctl # "carve" THEN 0
  ELSE IF TestableAhead THEN 81 - cv.cellIndex
  ELSE 162 - cv.cellIndex

\* a natural number for every state of a carving loop.  The two carvers
\* that go through their list once: the positions not yet taken.
\* SudokuCore: removals still to make, then attempts left, then rounds to
\* the next test.
RoundsLeft ==
  CASE impl = "solver" -> Len(cv.positions) - cv.cellIndex
    [] impl = "core" ->
         ((CarveTarget - Committed) * (CoreMaxAttempts + 1)
            + (CoreMaxAttempts - cv.attempts)) * 163 + PendingSkips
    [] OTHER -> Len(cv.positions)

\* C17: the carving loop of removeNumbers ends, for every carver: no step of
\* a carving raises RoundsLeft, a number that is never negative, and every
\* round of the loop lowers it: also the rounds in which SudokuCore, having
\* shuffled its list again, skips a cell it removed before, although a
\* skipped cell uses up no attempt and a removal sets the attempts to 0.
C17_EveryRoundLowersRoundsLeft ==
  /\ [](Carving => RoundsLeft >= 0)
  /\ [][Carving /\ Carving' =>
          /\ RoundsLeft' <= RoundsLeft
          /\ ctl = "carve" => RoundsLeft' < RoundsLeft]_vars

\* SudokuCore has shuffled its list again, has had a test fail in the new
\* pass, and has just skipped a cell it removed before
C17_Witness ==
  /\ impl = "core" /\ ctl = "carve"
  /\ cv.attempts > CoreLateCall.attempts
  /\ cv.cellIndex \in 1 .. 80
  /\ cv.positions[cv.cellIndex] \in cv.removedCells

=============================================================================
